---- MODULE Spec2Model ----
(***************************************************************************)
(* A model of github-activity.py: the GitHubActivity class (fetch, parse,  *)
(* describe, display, run) and the main() entry point with its two         *)
(* top-level exception handlers.                                           *)
(*                                                                         *)
(* JSON values are tagged records.  A dict is a record whose known keys    *)
(* are always present as fields; a key the dict does not hold has the      *)
(* value Absent.  Python exceptions are results with ok = FALSE.           *)
(***************************************************************************)
EXTENDS Integers, Sequences, FiniteSets, TLC

VARIABLES username, pc, response, events, idx, rows, output, exitCode, raised, arg, ret

vars == <<username, pc, response, events, idx, rows, output, exitCode, raised, arg, ret>>

(***************************************************************************)
(* Bounds of the model.                                                    *)
(***************************************************************************)
MaxEvents == 2

(***************************************************************************)
(* JSON / Python values.                                                   *)
(***************************************************************************)
Absent == [t |-> "absent"]
Null == [t |-> "null"]
Str(s) == [t |-> "str", s |-> s]
Text(cs) == [t |-> "text", chars |-> cs]
IntVal(n) == [t |-> "int", n |-> n]
List(xs) == [t |-> "list", items |-> xs]
RepoMap(name) == [t |-> "map", name |-> name]
ReleaseMap(tag) == [t |-> "map", tag_name |-> tag]
PayloadMap(size, ref_type, action, release) ==
    [t |-> "map", size |-> size, ref_type |-> ref_type,
     action |-> action, release |-> release]
EventMap(type, repo, created_at, payload) ==
    [t |-> "map", type |-> type, repo |-> repo,
     created_at |-> created_at, payload |-> payload]

EmptyRepo == RepoMap(Absent)
EmptyRelease == ReleaseMap(Absent)
EmptyPayload == PayloadMap(Absent, Absent, Absent, Absent)
EmptyEvent == EventMap(Absent, Absent, Absent, Absent)

Return(v) == [ok |-> TRUE, val |-> v]
Raise(e) == [ok |-> FALSE, exc |-> e]

(* bool(v): Python truthiness of a value. *)
Truthy(v) ==
    CASE v.t = "null" -> FALSE
      [] v.t = "str" -> v.s # ""
      [] v.t = "text" -> Len(v.chars) > 0
      [] v.t = "int" -> v.n # 0
      [] v.t = "list" -> Len(v.items) > 0
      [] v.t = "map" -> \E k \in DOMAIN v : k # "t" /\ v[k].t # "absent"
      [] OTHER -> FALSE

(* str(v) as an f-string field formats it. *)
PyStr(v) ==
    CASE v.t = "str" -> v.s
      [] v.t = "int" -> ToString(v.n)
      [] v.t = "null" -> "None"
      [] v.t = "list" -> "[]"
      [] OTHER -> "{}"

(* hash(v) succeeds: lists and dicts are unhashable. *)
Hashable(v) == v.t \in {"str", "text", "int", "null"}

(* d.get(k): the default is left out, an absent key gives None *)
GetWithoutDefault(d, k, default) ==
    IF d.t # "map" THEN Raise("AttributeError")
    ELSE IF d[k].t = "absent" THEN Return(Null) ELSE Return(d[k])

(* d.get(k, default) on a value d; a value that is no dict has no .get. *)
Get(d, k, default) ==
    IF d.t # "map" THEN Raise("AttributeError")
    ELSE IF d[k].t = "absent" THEN Return(default) ELSE Return(d[k])

(***************************************************************************)
(* Timestamp conversion                                                    *)
(*   datetime.fromisoformat(created_at.replace('Z', '+00:00'))             *)
(*           .strftime('%Y-%m-%d %H:%M:%S')                                *)
(* on strings given as sequences of characters.                            *)
(***************************************************************************)
DigitChars == <<"0", "1", "2", "3", "4", "5", "6", "7", "8", "9">>
IsDigit(c) == \E d \in 1..10 : DigitChars[d] = c
DigitVal(c) == (CHOOSE d \in 1..10 : DigitChars[d] = c) - 1
AllDigits(cs) == \A k \in 1..Len(cs) : IsDigit(cs[k])

RECURSIVE Num(_)
Num(cs) == IF cs = <<>> THEN 0
           ELSE 10 * Num(SubSeq(cs, 1, Len(cs) - 1)) + DigitVal(cs[Len(cs)])

(* str.replace('Z', '+00:00'): every Z is replaced. *)
RECURSIVE ReplaceZ(_)
ReplaceZ(cs) ==
    IF cs = <<>> THEN <<>>
    ELSE (IF Head(cs) = "Z" THEN <<"+", "0", "0", ":", "0", "0">> ELSE <<Head(cs)>>)
         \o ReplaceZ(Tail(cs))

IsLeap(y) == (y % 4 = 0) /\ ((y % 100 # 0) \/ (y % 400 = 0))
DaysInMonth(y, m) ==
    IF m = 2 THEN (IF IsLeap(y) THEN 29 ELSE 28)
    ELSE IF m \in {4, 6, 9, 11} THEN 30 ELSE 31

(* YYYY-MM-DD *)
DateShape(cs) ==
    /\ Len(cs) = 10
    /\ AllDigits(SubSeq(cs, 1, 4)) /\ cs[5] = "-"
    /\ AllDigits(SubSeq(cs, 6, 7)) /\ cs[8] = "-"
    /\ AllDigits(SubSeq(cs, 9, 10))
DateValid(cs) ==
    /\ DateShape(cs)
    /\ Num(SubSeq(cs, 1, 4)) \in 1..9999
    /\ Num(SubSeq(cs, 6, 7)) \in 1..12
    /\ Num(SubSeq(cs, 9, 10)) \in 1..DaysInMonth(Num(SubSeq(cs, 1, 4)), Num(SubSeq(cs, 6, 7)))

(* HH[:MM[:SS[.fff[fff]]]] *)
ClockShape(cs) ==
    /\ Len(cs) \in {2, 5, 8, 12, 15}
    /\ AllDigits(SubSeq(cs, 1, 2))
    /\ Len(cs) >= 5 => (cs[3] = ":" /\ AllDigits(SubSeq(cs, 4, 5)))
    /\ Len(cs) >= 8 => (cs[6] = ":" /\ AllDigits(SubSeq(cs, 7, 8)))
    /\ Len(cs) >= 12 => (cs[9] = "." /\ AllDigits(SubSeq(cs, 10, Len(cs))))
Hour(cs) == Num(SubSeq(cs, 1, 2))
Minute(cs) == IF Len(cs) >= 5 THEN Num(SubSeq(cs, 4, 5)) ELSE 0
Second(cs) == IF Len(cs) >= 8 THEN Num(SubSeq(cs, 7, 8)) ELSE 0
ClockValid(cs) ==
    ClockShape(cs) /\ Hour(cs) < 24 /\ Minute(cs) < 60 /\ Second(cs) < 60
(* the UTC offset after its sign: HH:MM[:SS], less than 24 hours in all *)
OffsetValid(cs) ==
    /\ Len(cs) \in {5, 8}
    /\ ClockShape(cs)
    /\ (Hour(cs) * 60 + Minute(cs)) * 60 + Second(cs) < 24 * 60 * 60

(* position of the offset sign in the time string: the first '-', else the
   first '+', else 0 *)
FirstOf(cs, c) ==
    IF \E k \in 1..Len(cs) : cs[k] = c
    THEN CHOOSE k \in 1..Len(cs) : cs[k] = c /\ \A j \in 1..(k - 1) : cs[j] # c
    ELSE 0
TzPos(cs) == IF FirstOf(cs, "-") # 0 THEN FirstOf(cs, "-") ELSE FirstOf(cs, "+")

TimeValid(cs) ==
    IF TzPos(cs) = 0 THEN ClockValid(cs)
    ELSE /\ ClockValid(SubSeq(cs, 1, TzPos(cs) - 1))
         /\ OffsetValid(SubSeq(cs, TzPos(cs) + 1, Len(cs)))
ClockOf(cs) == IF TzPos(cs) = 0 THEN cs ELSE SubSeq(cs, 1, TzPos(cs) - 1)

(* the string parses: a date, then optionally any one separator and a time *)
IsoValid(cs) ==
    /\ Len(cs) >= 10
    /\ DateValid(SubSeq(cs, 1, 10))
    /\ Len(cs) > 10 => TimeValid(SubSeq(cs, 12, Len(cs)))

Pad2(n) == IF n < 10 THEN "0" \o ToString(n) ELSE ToString(n)
Pad4(n) == IF n < 10 THEN "000" \o ToString(n)
           ELSE IF n < 100 THEN "00" \o ToString(n)
           ELSE IF n < 1000 THEN "0" \o ToString(n) ELSE ToString(n)

(* strftime('%Y-%m-%d %H:%M:%S') of the parsed wall-clock fields; the offset
   is parsed and validated but never applied *)
Strftime(cs) ==
    LET clock == IF Len(cs) > 10 THEN ClockOf(SubSeq(cs, 12, Len(cs))) ELSE <<"0", "0">>
    IN Pad4(Num(SubSeq(cs, 1, 4))) \o "-" \o Pad2(Num(SubSeq(cs, 6, 7))) \o "-"
       \o Pad2(Num(SubSeq(cs, 9, 10))) \o " " \o Pad2(Hour(clock)) \o ":"
       \o Pad2(Minute(clock)) \o ":" \o Pad2(Second(clock))

(* the conversion without the "if created_at" guard of line 51 *)
FormatTimestampUnguarded(created_at) ==
    IF created_at.t # "text" THEN Raise("AttributeError")
    ELSE IF IsoValid(ReplaceZ(created_at.chars))
         THEN Return(Strftime(ReplaceZ(created_at.chars)))
         ELSE Raise("ValueError")

(* lines 50-55 of parse_event: the timestamp of a created_at value *)
FormatTimestamp(created_at) ==
    IF ~Truthy(created_at) THEN Return("N/A")
    ELSE IF created_at.t # "text" THEN Raise("AttributeError")
    ELSE IF IsoValid(ReplaceZ(created_at.chars))
         THEN Return(Strftime(ReplaceZ(created_at.chars)))
         ELSE Raise("ValueError")

(***************************************************************************)
(* _get_event_description (lines 66-83).  The dict literal is built in     *)
(* full on every call, so every payload lookup runs whatever the kind is.  *)
(***************************************************************************)
KnownKinds ==
    {"PushEvent", "CreateEvent", "DeleteEvent", "PullRequestEvent", "IssuesEvent",
     "IssueCommentEvent", "PullRequestReviewEvent", "PullRequestReviewCommentEvent",
     "WatchEvent", "ForkEvent", "ReleaseEvent", "MemberEvent"}

(* the dict literal of lines 68-81, given the values its lookups returned *)
descriptions(size, ref_type, action, tag_name, repository) ==
    ("PushEvent" :> "Pushed " \o PyStr(size) \o " commits to " \o PyStr(repository))
    @@ ("CreateEvent" :> "Created " \o PyStr(ref_type) \o " in " \o PyStr(repository))
    @@ ("DeleteEvent" :> "Deleted " \o PyStr(ref_type) \o " in " \o PyStr(repository))
    @@ ("PullRequestEvent" :> "Pull request " \o PyStr(action) \o " in " \o PyStr(repository))
    @@ ("IssuesEvent" :> "Issue " \o PyStr(action) \o " in " \o PyStr(repository))
    @@ ("IssueCommentEvent" :> "Commented on issue in " \o PyStr(repository))
    @@ ("PullRequestReviewEvent" :> "Reviewed a pull request in " \o PyStr(repository))
    @@ ("PullRequestReviewCommentEvent" :>
            "Responded on a comment from a pull request in { repository }")
    @@ ("WatchEvent" :> "Starred " \o PyStr(repository))
    @@ ("ForkEvent" :> "Forked " \o PyStr(repository))
    @@ ("ReleaseEvent" :> "Released " \o PyStr(tag_name))
    @@ ("MemberEvent" :> "Added member to " \o PyStr(repository))

(* descriptions.get(event_type, f"Unknown event: {event_type}"), line 83 *)
Lookup(table, event_type) ==
    IF ~Hashable(event_type) THEN Raise("TypeError")
    ELSE IF event_type.t = "str" /\ event_type.s \in DOMAIN table
         THEN Return(table[event_type.s])
         ELSE Return("Unknown event: " \o PyStr(event_type))

_get_event_description(event_type, payload, repository) ==
    LET size == Get(payload, "size", IntVal(0))
        ref_type == Get(payload, "ref_type", Str("resource"))
        action == Get(payload, "action", Str("action"))
        release == Get(payload, "release", EmptyRelease)
        tag_name == Get(release.val, "tag_name", Str(""))
    IN IF ~size.ok THEN size
       ELSE IF ~tag_name.ok THEN tag_name
       ELSE Lookup(descriptions(size.val, ref_type.val, action.val, tag_name.val,
                                repository), event_type)

(***************************************************************************)
(* parse_event (lines 44-64)                                               *)
(***************************************************************************)
parse_event(event) ==
    LET event_type == Get(event, "type", Str(""))
        repo == Get(event, "repo", EmptyRepo)
        repo_name == Get(repo.val, "name", Str("N/A"))
        created_at == Get(event, "created_at", Str(""))
        timestamp == FormatTimestamp(created_at.val)
        payload == Get(event, "payload", EmptyPayload)
        description == _get_event_description(event_type.val, payload.val, repo_name.val)
    IN IF ~event_type.ok THEN event_type
       ELSE IF ~repo_name.ok THEN repo_name
       ELSE IF ~timestamp.ok THEN timestamp
       ELSE IF ~description.ok THEN description
       ELSE Return([timestamp |-> timestamp.val, description |-> description.val])

(***************************************************************************)
(* Inputs: command-line usernames, HTTP outcomes, and raw events.          *)
(***************************************************************************)
Usernames == {"octocat", "nonexistent-user-xyz", ""}
ErrorStatuses == {403, 404, 500}
NetworkCauses == {"ConnectionError", "Timeout"}

TsGood == <<"2", "0", "2", "3", "-", "0", "5", "-", "0", "1", "T",
            "1", "0", ":", "1", "5", ":", "3", "0", "Z">>
TsOffset == <<"2", "0", "2", "4", "-", "0", "2", "-", "2", "9", "T",
              "2", "3", ":", "5", "9", ":", "0", "7", "+", "0", "2", ":", "0", "0">>
TsDateOnly == <<"2", "0", "2", "3", "-", "0", "5", "-", "0", "1">>
TsNotADate == <<"n", "o", "t", "-", "a", "-", "d", "a", "t", "e">>
TsBadDay == <<"2", "0", "2", "3", "-", "0", "2", "-", "3", "0", "T",
              "1", "0", ":", "1", "5", ":", "3", "0", "Z">>

HelloRepo == RepoMap(Str("octo/hello-world"))

(* the events a fetched page is made of in the end-to-end runs *)
EventSamples ==
    { EmptyEvent,
      EventMap(Str("WatchEvent"), HelloRepo, Text(TsGood), EmptyPayload),
      EventMap(Str("PushEvent"), HelloRepo, Text(TsOffset),
               PayloadMap(IntVal(3), Absent, Absent, Absent)),
      EventMap(Str("CreateEvent"), HelloRepo, Text(TsNotADate),
               PayloadMap(Absent, Str("branch"), Absent, Absent)),
      EventMap(Str("ReleaseEvent"), Null, Text(TsGood), EmptyPayload) }

SeqsUpTo(S, n) == UNION {[1..k -> S] : k \in 0..n}
EventLists == SeqsUpTo(EventSamples, MaxEvents)

(***************************************************************************)
(* Console output.  Every printed item is a record; a line keeps its rich  *)
(* style and the pieces its f-string is made of.                           *)
(***************************************************************************)
Line(style, text) == [kind |-> "line", style |-> style, text |-> text, rows |-> <<>>]
TableOf(user, rs) ==
    [kind |-> "table", style |-> "table",
     text |-> <<"Recent GitHub Activity for ", user>>, rows |-> rs]

base_url == "https://api.github.com"
Url(user) == base_url \o "/users/" \o user \o "/events"

Banner(user) == Line("blue", <<"Fetching activity for ", user, "...">>)
NotFoundLine(user) == Line("red", <<"Error: User '", user, "' not found">>)
HttpErrorLine(status, user) ==
    Line("red", <<"Error: ", ToString(status), " Error for url: ", Url(user)>>)
NetworkErrorLine(cause) == Line("red", <<"Network error: ", cause>>)
NoActivityLine(user) == Line("yellow", <<" ", user, " has no recent activity...">>)
CancelledLine == Line("plain", <<"\nOperation cancelled by user">>)
UnexpectedLine(exc) == Line("plain", <<"An unexpected error occurred: ", exc>>)

NoResponse == [status |-> 0, error |-> "none"]

(* exit statuses: a normal return of main(), and the two sys.exit calls *)
ExitSuccess == 0
ExitCancelled == 1
ExitUnexpected == 1

(***************************************************************************)
(* main() and GitHubActivity.run()                                         *)
(***************************************************************************)
Init ==
    /\ username \in Usernames
    /\ pc = "start"
    /\ response = NoResponse
    /\ events = Null
    /\ idx = 1
    /\ rows = <<>>
    /\ output = <<>>
    /\ exitCode = -1
    /\ raised = "none"
    /\ arg = Null
    /\ ret = Null

(* main's "except Exception" handler, lines 138-140 *)
ExceptHandler(exc) ==
    /\ output' = Append(output, UnexpectedLine(exc))
    /\ exitCode' = ExitUnexpected
    /\ raised' = exc
    /\ pc' = "exited"

(* run, lines 112-120: parse the arguments, print the banner *)
RunStart ==
    /\ pc = "start"
    /\ output' = IF username # "" THEN Append(output, Banner(username)) ELSE output
    /\ pc' = "fetch"
    /\ UNCHANGED <<username, response, events, idx, rows, exitCode, raised, arg, ret>>

(* fetch_user_activity, lines 30-32: a 2xx response with a JSON list *)
FetchOk ==
    /\ pc = "fetch"
    /\ \E evs \in EventLists : events' = List(evs)
    /\ response' = [status |-> 200, error |-> "none"]
    /\ pc' = "fetched"
    /\ UNCHANGED <<username, idx, rows, output, exitCode, raised, arg, ret>>

(* fetch_user_activity, lines 33-39: raise_for_status raised HTTPError *)
FetchHTTPError ==
    /\ pc = "fetch"
    /\ \E status \in ErrorStatuses :
          /\ response' = [status |-> status, error |-> "HTTPError"]
          /\ output' = Append(output, IF status = 404 THEN NotFoundLine(username)
                                      ELSE HttpErrorLine(status, username))
    /\ events' = Null
    /\ pc' = "fetched"
    /\ UNCHANGED <<username, idx, rows, exitCode, raised, arg, ret>>

(* fetch_user_activity, lines 40-42: the request itself failed *)
FetchRequestException ==
    /\ pc = "fetch"
    /\ \E cause \in NetworkCauses :
          /\ response' = [status |-> 0, error |-> cause]
          /\ output' = Append(output, NetworkErrorLine(cause))
    /\ events' = Null
    /\ pc' = "fetched"
    /\ UNCHANGED <<username, idx, rows, exitCode, raised, arg, ret>>

(* fetch_user_activity, line 32: the 2xx body is not JSON.  The error
   response.json() raises is a RequestException in requests >= 2.27 and a
   plain ValueError before, which only main's handler catches. *)
FetchDecodeError ==
    /\ pc = "fetch"
    /\ response' = [status |-> 200, error |-> "JSONDecodeError"]
    /\ events' = Null
    /\ \/ /\ output' = Append(output, NetworkErrorLine("JSONDecodeError"))
          /\ pc' = "fetched"
          /\ UNCHANGED <<exitCode, raised>>
       \/ ExceptHandler("JSONDecodeError")
    /\ UNCHANGED <<username, idx, rows, arg, ret>>

(* the branch taken on "events is not None" instead of on truthiness *)
RunBranchOnNone ==
    /\ pc = "fetched"
    /\ IF events.t # "null"
       THEN /\ pc' = "display"
            /\ idx' = 1
            /\ rows' = <<>>
            /\ UNCHANGED output
       ELSE /\ output' = Append(output, NoActivityLine(username))
            /\ pc' = "return"
            /\ UNCHANGED <<idx, rows>>
    /\ UNCHANGED <<username, response, events, exitCode, raised, arg, ret>>

(* run, lines 123-127, and display_activity up to line 97 *)
RunBranch ==
    /\ pc = "fetched"
    /\ IF Truthy(events)
       THEN /\ pc' = "display"
            /\ idx' = 1
            /\ rows' = <<>>
            /\ UNCHANGED output
       ELSE /\ output' = Append(output, NoActivityLine(username))
            /\ pc' = "return"
            /\ UNCHANGED <<idx, rows>>
    /\ UNCHANGED <<username, response, events, exitCode, raised, arg, ret>>

(* the loop inserting each row at the top of the table *)
DisplayRowPrepend ==
    /\ pc = "display"
    /\ idx <= Len(events.items)
    /\ LET parsed == parse_event(events.items[idx])
       IN IF parsed.ok
          THEN /\ rows' = <<parsed.val>> \o rows
               /\ idx' = idx + 1
               /\ UNCHANGED <<pc, output, exitCode, raised>>
          ELSE /\ ExceptHandler(parsed.exc)
               /\ UNCHANGED <<idx, rows>>
    /\ UNCHANGED <<username, response, events, arg, ret>>

(* the loop printing the rows it has (try/finally) when an event fails *)
DisplayRowFlush ==
    /\ pc = "display"
    /\ idx <= Len(events.items)
    /\ LET parsed == parse_event(events.items[idx])
       IN IF parsed.ok
          THEN /\ rows' = Append(rows, parsed.val)
               /\ idx' = idx + 1
               /\ UNCHANGED <<pc, output, exitCode, raised>>
          ELSE /\ output' = output \o <<TableOf(username, rows), UnexpectedLine(parsed.exc)>>
               /\ exitCode' = ExitUnexpected
               /\ raised' = parsed.exc
               /\ pc' = "exited"
               /\ UNCHANGED <<idx, rows>>
    /\ UNCHANGED <<username, response, events, arg, ret>>

(* display_activity, lines 100-105: one turn of the loop *)
DisplayRow ==
    /\ pc = "display"
    /\ idx <= Len(events.items)
    /\ LET parsed == parse_event(events.items[idx])
       IN IF parsed.ok
          THEN /\ rows' = Append(rows, parsed.val)
               /\ idx' = idx + 1
               /\ UNCHANGED <<pc, output, exitCode, raised>>
          ELSE /\ ExceptHandler(parsed.exc)
               /\ UNCHANGED <<idx, rows>>
    /\ UNCHANGED <<username, response, events, arg, ret>>

(* display_activity, line 108 *)
DisplayPrint ==
    /\ pc = "display"
    /\ idx > Len(events.items)
    /\ output' = Append(output, TableOf(username, rows))
    /\ pc' = "return"
    /\ UNCHANGED <<username, response, events, idx, rows, exitCode, raised, arg, ret>>

(* run and main return; the interpreter exits with status 0 *)
MainReturn ==
    /\ pc = "return"
    /\ exitCode' = ExitSuccess
    /\ pc' = "exited"
    /\ UNCHANGED <<username, response, events, idx, rows, output, raised, arg, ret>>

(* the handler printing its notice and falling through without sys.exit *)
KeyboardInterruptNoExit ==
    /\ pc \in {"start", "fetch", "fetched", "display", "return"}
    /\ output' = Append(output, CancelledLine)
    /\ exitCode' = ExitSuccess
    /\ raised' = "KeyboardInterrupt"
    /\ pc' = "exited"
    /\ UNCHANGED <<username, response, events, idx, rows, arg, ret>>

(* main's "except KeyboardInterrupt" handler, lines 135-137: the signal can
   arrive at any point inside the try block *)
KeyboardInterrupt ==
    /\ pc \in {"start", "fetch", "fetched", "display", "return"}
    /\ output' = Append(output, CancelledLine)
    /\ exitCode' = ExitCancelled
    /\ raised' = "KeyboardInterrupt"
    /\ pc' = "exited"
    /\ UNCHANGED <<username, response, events, idx, rows, arg, ret>>

Next ==
    \/ RunStart
    \/ FetchOk
    \/ FetchHTTPError
    \/ FetchRequestException
    \/ FetchDecodeError
    \/ RunBranch
    \/ DisplayRow
    \/ DisplayPrint
    \/ MainReturn
    \/ KeyboardInterrupt

Spec == Init /\ [][Next]_vars

(***************************************************************************)
(* parse_event and _get_event_description called on their own, on every    *)
(* shape of raw event: each field absent, null, empty, of the wrong type,  *)
(* or well formed.                                                         *)
(***************************************************************************)
TypeVals ==
    {Absent, Null, Str(""), Str("FooEvent"), List(<<>>)} \cup {Str(k) : k \in KnownKinds}
RepoVals ==
    {Absent, Null, EmptyRepo, HelloRepo, RepoMap(Null), Str("octo/hello-world")}
CreatedAtVals ==
    {Absent, Null, IntVal(5), Text(<<>>), Text(TsGood), Text(TsOffset),
     Text(TsDateOnly), Text(TsNotADate), Text(TsBadDay)}
ReleaseVals ==
    {Absent, Null, EmptyRelease, ReleaseMap(Str("v1.0")), ReleaseMap(Null), Str("v1.0")}
PayloadVals ==
    {Absent, Null, List(<<>>)} \cup
    { PayloadMap(size, ref_type, action, release) :
        size \in {Absent, Null, IntVal(3)}, ref_type \in {Absent, Str("branch")},
        action \in {Absent, Str("opened")}, release \in ReleaseVals }
RepositoryVals == {Str("N/A"), Str("octo/hello-world"), Null}

RawEvents ==
    {Null, Str("PushEvent")} \cup
    { EventMap(type, repo, created_at, payload) :
        type \in TypeVals, repo \in RepoVals,
        created_at \in CreatedAtVals, payload \in PayloadVals }

InitCall(name, args) ==
    /\ pc = name
    /\ arg \in args
    /\ ret = Null
    /\ username = ""
    /\ response = NoResponse
    /\ events = Null
    /\ idx = 1
    /\ rows = <<>>
    /\ output = <<>>
    /\ exitCode = -1
    /\ raised = "none"

InitParse == InitCall("call_parse_event", RawEvents)

CallParseEvent ==
    /\ pc = "call_parse_event"
    /\ ret' = parse_event(arg)
    /\ pc' = "returned"
    /\ UNCHANGED <<username, response, events, idx, rows, output, exitCode, raised, arg>>

SpecParse == InitParse /\ [][CallParseEvent]_vars

InitDescribe ==
    InitCall("call_get_event_description",
             [event_type : TypeVals \ {Absent}, payload : PayloadVals \ {Absent},
              repository : RepositoryVals])

CallDescribe ==
    /\ pc = "call_get_event_description"
    /\ ret' = _get_event_description(arg.event_type, arg.payload, arg.repository)
    /\ pc' = "returned"
    /\ UNCHANGED <<username, response, events, idx, rows, output, exitCode, raised, arg>>

SpecDescribe == InitDescribe /\ [][CallDescribe]_vars

(***************************************************************************)
(* Properties                                                              *)
(***************************************************************************)
Exited == pc = "exited"
Interrupted == raised = "KeyboardInterrupt"
TablesPrinted == {k \in 1..Len(output) : output[k].kind = "table"}
AfterBanner ==
    IF output # <<>> /\ output[1] = Banner(username) THEN Tail(output) ELSE output
Mentions(line, user) == \E j \in 1..Len(line.text) : line.text[j] = user
FetchFailed == response.error \in ({"HTTPError"} \cup NetworkCauses)
FetchedEmpty == response = [status |-> 200, error |-> "none"] /\ events = List(<<>>)

(* C1: a run whose fetch got HTTP 404 prints a message containing the
   username and exits with code 1; every run whose fetch failed exits with
   code 1. *)
C1_FetchErrorExitsOne ==
    (Exited /\ ~Interrupted /\ response.error # "none") =>
        /\ exitCode = 1
        /\ response.status = 404 =>
              \E k \in 1..Len(output) :
                  output[k].kind = "line" /\ Mentions(output[k], username)

(* C2: a run whose fetch failed (404, another HTTP error status, a network
   failure) prints exactly one error line after the banner and nothing
   else: no table and no other notice. *)
C2_FetchFailureOneLine ==
    (Exited /\ ~Interrupted /\ FetchFailed) =>
        /\ Len(AfterBanner) = 1
        /\ AfterBanner[1].kind = "line"
        /\ AfterBanner[1].style = "red"

(* C3: when the fetch succeeds with an empty event list no table is ever
   rendered, and the run that is not interrupted prints the "no recent
   activity" notice as its only output after the banner and exits with
   code 0. *)
C3_EmptyListNotice ==
    FetchedEmpty =>
        /\ TablesPrinted = {}
        /\ pc # "display"
        /\ (Exited /\ ~Interrupted) =>
              (AfterBanner = <<NoActivityLine(username)>> /\ exitCode = 0)
C3_Witness ==
    /\ Exited /\ FetchedEmpty /\ exitCode = 0
    /\ output = <<Banner("octocat"), NoActivityLine("octocat")>>

BadCreatedAt(e) ==
    /\ e.t = "map"
    /\ e.created_at.t = "text"
    /\ Len(e.created_at.chars) > 0
    /\ ~FormatTimestamp(e.created_at).ok

(* C4: a fetched sequence holding an event with a non-empty, unparsable
   created_at is still rendered: the run does not fail, the table has a
   row for every event, and every event without such a timestamp has its
   normal row (the affected event's row carrying a placeholder). *)
C4_BadTimestampContained ==
    ( /\ Exited /\ ~Interrupted /\ events.t = "list"
      /\ \E i \in 1..Len(events.items) : BadCreatedAt(events.items[i])
      /\ \A i \in 1..Len(events.items) :
            ~BadCreatedAt(events.items[i]) => parse_event(events.items[i]).ok ) =>
        /\ raised = "none"
        /\ \E k \in TablesPrinted :
              /\ Len(output[k].rows) = Len(events.items)
              /\ \A i \in 1..Len(events.items) :
                    ~BadCreatedAt(events.items[i]) =>
                        output[k].rows[i] = parse_event(events.items[i]).val

(* the documented value of a payload key: the value when present, else
   the default *)
Substituted(payload, key, default) ==
    IF payload[key].t = "absent" THEN default ELSE PyStr(payload[key])
TagName(payload) ==
    IF payload.release.t = "absent" THEN "" ELSE Substituted(payload.release, "tag_name", "")
(* the templates of the documentation, with the text of the one template
   that is not interpolated given as `literal` *)
Documented(kind, payload, repository, literal) ==
    CASE kind = "PushEvent" ->
            "Pushed " \o Substituted(payload, "size", "0") \o " commits to " \o repository
      [] kind = "CreateEvent" ->
            "Created " \o Substituted(payload, "ref_type", "resource") \o " in " \o repository
      [] kind = "DeleteEvent" ->
            "Deleted " \o Substituted(payload, "ref_type", "resource") \o " in " \o repository
      [] kind = "PullRequestEvent" ->
            "Pull request " \o Substituted(payload, "action", "action") \o " in " \o repository
      [] kind = "IssuesEvent" ->
            "Issue " \o Substituted(payload, "action", "action") \o " in " \o repository
      [] kind = "IssueCommentEvent" -> "Commented on issue in " \o repository
      [] kind = "PullRequestReviewEvent" -> "Reviewed a pull request in " \o repository
      [] kind = "PullRequestReviewCommentEvent" -> literal
      [] kind = "WatchEvent" -> "Starred " \o repository
      [] kind = "ForkEvent" -> "Forked " \o repository
      [] kind = "ReleaseEvent" -> "Released " \o TagName(payload)
      [] kind = "MemberEvent" -> "Added member to " \o repository
      [] OTHER -> "Unknown event: " \o kind

(* a call whose kind is a string and whose payload is a map with its
   release entry absent or a map *)
WellTypedCall ==
    /\ arg.event_type.t = "str"
    /\ arg.payload.t = "map"
    /\ arg.payload.release.t \in {"absent", "map"}

(* C5 as stated: _get_event_description returns the documented template
   of the kind, PullRequestReviewCommentEvent giving the literal text
   "... in {repository}". *)
C5_DocumentedTemplates ==
    (pc = "returned" /\ WellTypedCall) =>
        ret = Return(Documented(arg.event_type.s, arg.payload, PyStr(arg.repository),
                 "Responded on a comment from a pull request in {repository}"))

(* C5 amended: _get_event_description returns the documented template of
   the kind for every string kind, repository and payload map whose release
   entry is absent or a map, PullRequestReviewCommentEvent giving the
   literal text "... in { repository }", with a space on each side of the
   name inside the braces. *)
C5_TemplatesWithSpacedLiteral ==
    (pc = "returned" /\ WellTypedCall) =>
        ret = Return(Documented(arg.event_type.s, arg.payload, PyStr(arg.repository),
                 "Responded on a comment from a pull request in { repository }"))
C5_Witness ==
    /\ pc = "returned"
    /\ WellTypedCall
    /\ arg.event_type = Str("PullRequestReviewCommentEvent")
    /\ arg.payload = EmptyPayload
    /\ ret = Return("Responded on a comment from a pull request in { repository }")

(* C6: parse_event raises for no shape of the raw event other than a
   malformed timestamp: it returns a record with a timestamp and a
   description. *)
C6_ParseNeverRaises ==
    (pc = "returned" /\ arg.t = "map" /\ FormatTimestamp(arg.created_at).ok) =>
        /\ ret.ok
        /\ DOMAIN ret.val = {"timestamp", "description"}

WellFormedRest(e) ==
    /\ e.type.t \in {"absent", "str", "null"}
    /\ e.repo.t \in {"absent", "map"}
    /\ e.payload.t \in {"absent", "map"}
    /\ e.payload.t = "map" => e.payload.release.t \in {"absent", "map"}

(* C7: parse_event of an event with no field at all returns timestamp
   "N/A" and description "Unknown event: "; whenever created_at is absent
   or empty the returned timestamp is "N/A", and whenever repo.name is
   absent the description is the one of repository "N/A". *)
C7_AbsentFieldDefaults ==
    (pc = "returned" /\ arg.t = "map") =>
        /\ arg = EmptyEvent =>
              ret = Return([timestamp |-> "N/A", description |-> "Unknown event: "])
        /\ (arg.created_at \in {Absent, Text(<<>>)} /\ ret.ok) => ret.val.timestamp = "N/A"
        /\ (arg.created_at \in {Absent, Text(<<>>)} /\ WellFormedRest(arg)) => ret.ok
        /\ (arg.repo \in {Absent, EmptyRepo} /\ ret.ok) =>
              /\ ret.val.description =
                    _get_event_description(Get(arg, "type", Str("")).val,
                                           Get(arg, "payload", EmptyPayload).val,
                                           Str("N/A")).val
              /\ arg.type = Str("WatchEvent") => ret.val.description = "Starred N/A"
              /\ arg.type = Str("ForkEvent") => ret.val.description = "Forked N/A"
C7_Witness ==
    /\ pc = "returned"
    /\ arg = EmptyEvent
    /\ ret = Return([timestamp |-> "N/A", description |-> "Unknown event: "])

(* C8: a rendered table has one row per fetched event, row i being the
   parsed form of event i; while the table is built its rows are the parsed
   forms of the events before the current one, in order. *)
C8_RowsInInputOrder ==
    /\ pc = "display" =>
          /\ Len(rows) = idx - 1
          /\ \A i \in 1..Len(rows) : rows[i] = parse_event(events.items[i]).val
    /\ \A k \in TablesPrinted :
          /\ events.t = "list"
          /\ Len(output[k].rows) = Len(events.items)
          /\ \A i \in 1..Len(events.items) :
                output[k].rows[i] = parse_event(events.items[i]).val
C8_Witness ==
    \E k \in TablesPrinted :
        /\ Len(output[k].rows) = 2
        /\ output[k].rows[1] # output[k].rows[2]
        /\ output[k].rows[2].description = "Starred octo/hello-world"

(* C9 as stated: an interrupted run exits with a code of its own, other
   than the code of success and the code of the other failures. *)
C9_InterruptOwnExitCode ==
    (Exited /\ Interrupted) => (exitCode # ExitSuccess /\ exitCode # ExitUnexpected)

(* C9 amended: an interrupt can arrive at any point of a run before it
   has exited; it ends the run, the cancellation notice being the last
   thing printed, with exit code 1, which differs from the code of success
   and is the code of the other uncaught failures. *)
C9_InterruptExitsOne ==
    /\ ~Exited => ENABLED KeyboardInterrupt
    /\ Interrupted =>
          /\ Exited
          /\ exitCode = 1
          /\ exitCode # ExitSuccess
          /\ exitCode = ExitUnexpected
          /\ output[Len(output)] = CancelledLine
C9_Witness ==
    /\ Exited /\ Interrupted /\ exitCode = 1
    /\ response = NoResponse
    /\ output = <<Banner("octocat"), CancelledLine>>

ParseRaised == raised \in {"ValueError", "AttributeError", "TypeError"}

(* C10: the table is printed at most once and only when every fetched
   event has been parsed; when parsing an event raises, no table is
   printed, the only output after the banner is the "An unexpected error
   occurred" line, and the exit code is 1. *)
C10_TableAllOrNothing ==
    /\ Cardinality(TablesPrinted) <= 1
    /\ TablesPrinted # {} =>
          /\ events.t = "list"
          /\ idx > Len(events.items)
          /\ \A i \in 1..Len(events.items) : parse_event(events.items[i]).ok
    /\ ParseRaised =>
          /\ Exited
          /\ TablesPrinted = {}
          /\ AfterBanner = <<UnexpectedLine(raised)>>
          /\ exitCode = 1
C10_Witness ==
    /\ raised = "ValueError"
    /\ Len(rows) >= 1
    /\ Exited /\ exitCode = 1
    /\ TablesPrinted = {}
====
